---- MODULE Spec2Model ----
(***************************************************************************)
(* State-machine model of the hajimi crawler core:                         *)
(*   - utils/github_client.py : GitHubClient (token rotation, the shared   *)
(*     class-level cooldown state, search_for_keys)                        *)
(*   - app/hajimi_king.py     : should_skip_item, process_item,            *)
(*     validate_gemini_key                                                 *)
(*   - utils/file_manager.py  : Checkpoint, FileManager.load_checkpoint,   *)
(*     save_checkpoint, save_scanned_shas, load_scanned_shas               *)
(*   - utils/sync_utils.py    : SyncUtils.add_keys_to_queue,               *)
(*     _batch_send_worker and the saving_checkpoint guard                  *)
(*                                                                         *)
(* Time.  The code reads the wall clock (time.time()) and stores one       *)
(* absolute timestamp, _GLOBAL_COOLDOWN_UNTIL.  Only differences between   *)
(* timestamps and the clock are ever used, so the model keeps every        *)
(* timestamp in the frame of reference that moves with the clock: the      *)
(* clock reads Now (= 0) in every state, and when d seconds pass (Elapse)  *)
(* every stored timestamp moves d seconds closer to Now, stopping at Now   *)
(* (a timestamp in the past behaves like Now in every comparison the code  *)
(* makes).  time.sleep(w) is a timestamp wake_at = Now + w; the sleeper    *)
(* continues once wake_at has been reached.                                *)
(***************************************************************************)
EXTENDS Integers, Sequences, FiniteSets, TLC

VARIABLES
    cooldown_until,   \* GitHubClient._GLOBAL_COOLDOWN_UNTIL (class level, shared)
    count,            \* GitHubClient._CONSECUTIVE_403_COUNT (class level, shared)
    st,               \* st[c]: the GitHubClient instance c and the frame of its search_for_keys call
    ev,               \* history: the last response handled (who, what, on which page)
    streak,           \* history: throttle responses since the last successful request
    checkpoint,       \* the Checkpoint object (file_manager.py)
    item,             \* the search hit handed to should_skip_item
    utcnow,           \* datetime.utcnow() as read by should_skip_item, in days
    skip,             \* the value returned by should_skip_item
    skip_stats,       \* skip_stats (hajimi_king.py): skips counted by reason
    evals,            \* history: the number of should_skip_item calls
    disk,             \* the data directory: checkpoint.json and the scanned-shas file
    run,              \* the crawler process: its position in save_checkpoint / load_checkpoint
    saved,            \* history: the checkpoint written by the last complete save
    saving_checkpoint,\* SyncUtils.saving_checkpoint
    sync_utils,       \* the SyncUtils object: its switches and the threads inside its methods
    pi,               \* the frame of one process_item call and the key stores it writes
    deep_scan         \* the deep scan of one query: its window and the slice at hand

vars == <<cooldown_until, count, st, ev, streak, checkpoint, item, utcnow, skip,
         skip_stats, evals, disk, run, saved, saving_checkpoint, sync_utils, pi,
         deep_scan>>

ghVars == <<cooldown_until, count, st, ev, streak>>
skipVars == <<checkpoint, item, utcnow, skip, skip_stats, evals>>
appVars == <<disk, run, saved, saving_checkpoint, sync_utils, pi>>

(***************************************************************************)
(* Bounds of the model                                                     *)
(***************************************************************************)
NCallers == 2            \* GitHubClient instances that may run concurrently
MaxRetries == 3          \* largest max_retries argument explored
MaxTokens == 2           \* largest token pool explored
MaxFaults == 4           \* responses other than a success the service gives one call
MaxFetches == 2          \* get_file_content calls of one client

Callers == 1..NCallers

Max(a, b) == IF a >= b THEN a ELSE b
Min(a, b) == IF a <= b THEN a ELSE b

(***************************************************************************)
(* Program constants (github_client.py)                                    *)
(***************************************************************************)
Now == 0                 \* time.time(), in the moving frame
LastPage == 10           \* for page in range(1, 11)
FetchPenalty == 60       \* line 121: time.time() + 60
BasePenalty == 60        \* 60 * _CONSECUTIVE_403_COUNT
DefaultRetryAfter == 60  \* headers.get('Retry-After', 60)
BackoffStep == 5         \* time.sleep(min(5 * attempt, 30))
BackoffCap == 30
ResultWindow == 1000     \* min(total_count, 1000), (expected_total or 1000)
PageDelays == {5, 12}    \* random.uniform(5.0, 12.0): the two ends

None == -1               \* Python None for an int-valued local

(***************************************************************************)
(* The search service, as seen by one request                              *)
(***************************************************************************)
\* Retry-After header of a throttling response: absent, an integer number of
\* seconds, or text that int() rejects (RFC 7231 allows an HTTP-date).
RetryAfterHeaders ==
    { [kind |-> "absent", v |-> 0],
      [kind |-> "int", v |-> 7],
      [kind |-> "int", v |-> 300],
      [kind |-> "date", v |-> 0] }

\* What the service holds for one query: the total_count it advertises, the
\* number of results it actually serves, and the page size it serves (it may
\* serve fewer than the per_page asked for).  Page p of a query holds the
\* results (p-1)*cap+1 .. p*cap of the `served` ones.
Queries ==
    { [tc |-> 0,    served |-> 0,    cap |-> 100],
      [tc |-> 150,  served |-> 150,  cap |-> 100],
      [tc |-> 150,  served |-> 100,  cap |-> 100],
      [tc |-> 1200, served |-> 1200, cap |-> 100],
      [tc |-> 1200, served |-> 1200, cap |-> 50] }

ShortQueries == { q \in Queries : q.served = q.tc /\ q.tc <= 150 }

PageSize(q, page) == Max(0, Min(q.cap, q.served - q.cap * (page - 1)))

NoHeader == [kind |-> "absent", v |-> 0]

\* A 2xx body is a search result object {total_count, items}, or it is not JSON.
OkResponses(s) ==
    { [kind |-> "ok", tc |-> s.query.tc, n |-> PageSize(s.query, s.page), ra |-> NoHeader] }

ThrottleResponses ==
    { [kind |-> "throttle", tc |-> 0, n |-> 0, ra |-> h] : h \in RetryAfterHeaders }

FailedResponses ==
    { [kind |-> k, tc |-> 0, n |-> 0, ra |-> NoHeader] : k \in {"error", "badjson"} }

Responses(s) == OkResponses(s) \cup ThrottleResponses \cup FailedResponses

(***************************************************************************)
(* GitHubClient: construction and token rotation                           *)
(***************************************************************************)
NoResult == [total_count |-> None, items |-> <<>>]

\* GitHubClient.__init__ with a pool of n distinct tokens, and the locals of a
\* search_for_keys(query, max_retries = r) call that has not started.
\* Tokens are named 1..n in list order; current_token 0 is Python None.
\* items = None stands for the local `items` not being bound yet.
Client(n, r, q, pc0) ==
    [ pc |-> pc0, query |-> q, ntokens |-> n, token_ptr |-> 0, max_retries |-> r,
      current_token |-> 0, page |-> 0, attempt |-> 0, page_success |-> FALSE,
      items |-> None, all_items |-> <<>>, total_count |-> 0,
      expected_total |-> None, wake_at |-> Now, result |-> NoResult,
      \* the Authorization header of the last request (0: none was set), the
      \* counter value and the Retry-After header a throttle handler has read,
      \* and the locals of get_file_content
      auth |-> 0, loaded |-> 0, ra |-> NoHeader, back |-> pc0, content |-> "none",
      \* history of the call, read by the properties only
      reqs |-> 0, page_reqs |-> 0, last_req_page |-> 0, fails |-> 0,
      throttled_page |-> 0, tc1 |-> None, faults |-> 0, sent |-> 0, fetches |-> 0 ]

\* _next_token that leaves the pointer where it is
NextToken_Stuck(tokens, ptr) ==
    IF tokens = 0 THEN <<0, ptr>>
    ELSE <<(ptr % tokens) + 1, ptr>>

\* _next_token that advances the pointer before looking at the pool
NextToken_Advance(tokens, ptr) ==
    IF tokens = 0 THEN <<0, ptr + 1>>
    ELSE <<(ptr % tokens) + 1, ptr + 1>>

\* _next_token: <<token, new _token_ptr>>
NextToken(tokens, ptr) ==
    IF tokens = 0 THEN <<0, ptr>>
    ELSE <<(ptr % tokens) + 1, ptr + 1>>

\* if current_token: headers["Authorization"] = f"token {current_token}"
Authorization(token) == IF token # 0 THEN token ELSE 0

\* len(all_items)
ItemCount(all_items) ==
    LET RECURSIVE Sum(_)
        Sum(i) == IF i = 0 THEN 0 ELSE all_items[i].n + Sum(i - 1)
    IN Sum(Len(all_items))

(***************************************************************************)
(* search_for_keys, one step per suspension point                          *)
(***************************************************************************)
\* search_for_keys is entered: lines 37-41
StartSearch(c) ==
    /\ st[c].pc = "idle"
    /\ st' = [st EXCEPT ![c] = [@ EXCEPT !.pc = "wait_top", !.page = 1,
                                         !.all_items = <<>>, !.total_count = 0,
                                         !.expected_total = None]]
    /\ UNCHANGED <<cooldown_until, count, ev, streak, skipVars, appVars, deep_scan>>

\* page_success = False and the first pass of `for attempt in range(1, max_retries + 1)`
EnterAttempts(s) ==
    IF s.max_retries >= 1
    THEN [s EXCEPT !.page_success = FALSE, !.attempt = 1, !.pc = "attempt",
                   !.page_reqs = 0, !.fails = 0]
    ELSE [s EXCEPT !.page_success = FALSE, !.pc = "after_page",
                   !.page_reqs = 0, !.fails = 0]

\* the attempt loop as a retry that never uses up an attempt
NextAttempt_Retry(s) == [s EXCEPT !.pc = "attempt"]

\* the next pass of the attempt loop, or its end
NextAttempt(s) ==
    IF s.attempt < s.max_retries
    THEN [s EXCEPT !.attempt = @ + 1, !.pc = "attempt"]
    ELSE [s EXCEPT !.pc = "after_page"]

\* _wait_if_cooldown at the top of a page (line 42): one clock read, one sleep
WaitTop(c) ==
    /\ st[c].pc = "wait_top"
    /\ IF Now < cooldown_until
       THEN st' = [st EXCEPT ![c] = [@ EXCEPT !.pc = "cool_sleep_top",
                                              !.wake_at = Now + (cooldown_until - Now)]]
       ELSE st' = [st EXCEPT ![c] = EnterAttempts(@)]
    /\ UNCHANGED <<cooldown_until, count, ev, streak, skipVars, appVars, deep_scan>>

WakeTop(c) ==
    /\ st[c].pc = "cool_sleep_top"
    /\ st[c].wake_at <= Now
    /\ st' = [st EXCEPT ![c] = EnterAttempts(@)]
    /\ UNCHANGED <<cooldown_until, count, ev, streak, skipVars, appVars, deep_scan>>

\* lines 46-62: rotate the token and send the request for the current page
SendRequest(c) ==
    /\ st[c].pc = "attempt"
    /\ LET s == st[c]
           t == NextToken(s.ntokens, s.token_ptr)
       IN st' = [st EXCEPT ![c] = [s EXCEPT !.pc = "await_response",
                                            !.current_token = t[1],
                                            !.token_ptr = t[2],
                                            !.auth = Authorization(t[1]),
                                            !.sent = @ + 1,
                                            !.reqs = @ + 1,
                                            !.page_reqs = @ + 1,
                                            !.last_req_page = s.page,
                                            !.throttled_page = 0]]
    /\ UNCHANGED <<cooldown_until, count, ev, streak, skipVars, appVars, deep_scan>>

\* int(response.headers.get('Retry-After', 60)): the number, or ok = FALSE
\* where int() raises ValueError
IntHeader(h) ==
    CASE h.kind = "absent" -> [ok |-> TRUE, v |-> DefaultRetryAfter]
      [] h.kind = "int"    -> [ok |-> TRUE, v |-> h.v]
      [] OTHER             -> [ok |-> FALSE, v |-> 0]

\* max(retry_after, 60 * _CONSECUTIVE_403_COUNT)
CooldownPeriod(retry_after, n) == Max(retry_after, BasePenalty * n)

\* max(0, _CONSECUTIVE_403_COUNT - 1)
AfterSuccess(n) == Max(0, n - 1)

\* except Exception: time.sleep(min(5 * attempt, 30))
Backoff(s) ==
    [s EXCEPT !.pc = "backoff_sleep",
              !.wake_at = Now + Min(BackoffStep * s.attempt, BackoffCap)]

\* lines 65-77: a 403 or 429 response whose Retry-After header is ra, handled
\* by a thread that read `loaded` from _CONSECUTIVE_403_COUNT for the `+= 1`
Throttled(c, ra, loaded) ==
    LET s == [st[c] EXCEPT !.throttled_page = st[c].page, !.faults = @ + 1,
                           !.loaded = 0, !.ra = NoHeader]
        h == IntHeader(ra)
    IN /\ count' = loaded + 1
       /\ streak' = streak + 1
       /\ ev' = [type |-> "throttle", caller |-> c, page |-> s.page, ra |-> ra]
       /\ IF ~h.ok
          THEN \* int() raises before the cooldown is written
               /\ cooldown_until' = cooldown_until
               /\ st' = [st EXCEPT ![c] = Backoff(s)]
          ELSE /\ cooldown_until' = Now + CooldownPeriod(h.v, count')
               /\ IF s.current_token = 0
                  THEN \* current_token[:10] raises TypeError on None
                       st' = [st EXCEPT ![c] = Backoff(s)]
                  ELSE st' = [st EXCEPT ![c] = [s EXCEPT !.pc = "wait_retry"]]

\* the handler running without another thread in between
OnThrottle(c, r) == Throttled(c, r.ra, count)

\* line 66, first half of `_CONSECUTIVE_403_COUNT += 1`: the class attribute is
\* read; other threads run before the sum is stored
LoadCount(c, r) ==
    /\ st' = [st EXCEPT ![c] = [@ EXCEPT !.pc = "incr", !.loaded = count, !.ra = r.ra]]
    /\ UNCHANGED <<cooldown_until, count, ev, streak>>

\* line 66, second half, and the rest of the handler (lines 68-77)
StoreCount(c) ==
    /\ st[c].pc = "incr"
    /\ Throttled(c, st[c].ra, st[c].loaded)
    /\ UNCHANGED <<skipVars, appVars, deep_scan>>

\* requests.get or raise_for_status raises: network failure, 5xx, other 4xx
OnError(c, r) ==
    /\ st' = [st EXCEPT ![c] = Backoff([@ EXCEPT !.fails = @ + 1, !.faults = @ + 1])]
    /\ ev' = [type |-> "error", caller |-> c, page |-> st[c].page, ra |-> r.ra]
    /\ UNCHANGED <<cooldown_until, count, streak>>

\* a 2xx response whose body response.json() rejects
OnBadJson(c, r) ==
    /\ count' = AfterSuccess(count)
    /\ streak' = 0
    /\ st' = [st EXCEPT ![c] = Backoff([@ EXCEPT !.fails = @ + 1, !.faults = @ + 1])]
    /\ ev' = [type |-> "badjson", caller |-> c, page |-> st[c].page, ra |-> r.ra]
    /\ UNCHANGED cooldown_until

\* lines 79-93: a 2xx response with a search result
OnOk(c, r) ==
    LET s == st[c]
    IN /\ count' = AfterSuccess(count)
       /\ streak' = 0
       /\ ev' = [type |-> "ok", caller |-> c, page |-> s.page, ra |-> r.ra]
       /\ st' = [st EXCEPT ![c] =
                   [s EXCEPT !.page_success = TRUE,
                             !.total_count = IF s.page = 1 THEN r.tc ELSE @,
                             !.expected_total =
                                 IF s.page = 1 THEN Min(r.tc, ResultWindow) ELSE @,
                             !.tc1 = IF s.page = 1 THEN r.tc ELSE @,
                             !.items = r.n,
                             !.all_items =
                                 IF r.n > 0
                                 THEN Append(@, [page |-> s.page, n |-> r.n])
                                 ELSE @,
                             !.pc = "after_page"]]
       /\ UNCHANGED cooldown_until

\* the response to the request in flight arrives
Respond(c) ==
    /\ st[c].pc = "await_response"
    /\ \E r \in Responses(st[c]) :
         /\ r.kind # "ok" => st[c].faults < MaxFaults
         /\ CASE r.kind = "throttle" -> OnThrottle(c, r)
              [] r.kind = "error"    -> OnError(c, r)
              [] r.kind = "badjson"  -> OnBadJson(c, r)
              [] OTHER               -> OnOk(c, r)
    /\ UNCHANGED <<skipVars, appVars, deep_scan>>

\* the response arrives in a thread that shares the class attributes with
\* other running threads
RespondShared(c) ==
    /\ st[c].pc = "await_response"
    /\ \E r \in Responses(st[c]) :
         /\ r.kind # "ok" => st[c].faults < MaxFaults
         /\ CASE r.kind = "throttle" -> LoadCount(c, r)
              [] r.kind = "error"    -> OnError(c, r)
              [] r.kind = "badjson"  -> OnBadJson(c, r)
              [] OTHER               -> OnOk(c, r)
    /\ UNCHANGED <<skipVars, appVars, deep_scan>>

\* _wait_if_cooldown after a throttling response (line 76), then `continue`
WaitRetry(c) ==
    /\ st[c].pc = "wait_retry"
    /\ IF Now < cooldown_until
       THEN st' = [st EXCEPT ![c] = [@ EXCEPT !.pc = "cool_sleep_retry",
                                              !.wake_at = Now + (cooldown_until - Now)]]
       ELSE st' = [st EXCEPT ![c] = NextAttempt(@)]
    /\ UNCHANGED <<cooldown_until, count, ev, streak, skipVars, appVars, deep_scan>>

WakeRetry(c) ==
    /\ st[c].pc = "cool_sleep_retry"
    /\ st[c].wake_at <= Now
    /\ st' = [st EXCEPT ![c] = NextAttempt(@)]
    /\ UNCHANGED <<cooldown_until, count, ev, streak, skipVars, appVars, deep_scan>>

WakeBackoff(c) ==
    /\ st[c].pc = "backoff_sleep"
    /\ st[c].wake_at <= Now
    /\ st' = [st EXCEPT ![c] = NextAttempt(@)]
    /\ UNCHANGED <<cooldown_until, count, ev, streak, skipVars, appVars, deep_scan>>

\* lines 105-106
Return(s) ==
    [s EXCEPT !.pc = "returned",
              !.result = [total_count |-> s.total_count, items |-> s.all_items]]

\* the stop test without the advertised total
ExpectedOr_Window(e) == ResultWindow

\* (expected_total or 1000)
ExpectedOr(e) == IF e = None \/ e = 0 THEN ResultWindow ELSE e

\* line 99 with its operands swapped: `not items or not page_success`
StopAfterPage_ItemsFirst(s) ==
    IF s.items = None THEN "raise"
    ELSE IF s.items = 0 \/ ~s.page_success THEN "stop"
    ELSE IF ItemCount(s.all_items) >= ExpectedOr(s.expected_total) THEN "stop"
    ELSE "sleep"

\* line 99: `not page_success or not items`; "raise" where `items` is read unbound
StopAfterPage(s) ==
    IF ~s.page_success THEN "stop"
    ELSE IF s.items = None THEN "raise"
    ELSE IF s.items = 0 THEN "stop"
    ELSE IF ItemCount(s.all_items) >= ExpectedOr(s.expected_total) THEN "stop"
    ELSE "sleep"

\* lines 99-103: the end of one page
AfterPage(c) ==
    /\ st[c].pc = "after_page"
    /\ LET s == st[c]
           d == StopAfterPage(s)
       IN CASE d = "stop"  -> st' = [st EXCEPT ![c] = Return(s)]
            [] d = "raise" -> st' = [st EXCEPT ![c] = [s EXCEPT !.pc = "raised"]]
            [] OTHER       -> \E w \in PageDelays :
                                 st' = [st EXCEPT ![c] = [s EXCEPT !.pc = "page_sleep",
                                                                   !.wake_at = Now + w]]
    /\ UNCHANGED <<cooldown_until, count, ev, streak, skipVars, appVars, deep_scan>>

\* the inter-page sleep is over: the next pass of `for page in range(1, 11)`
WakePage(c) ==
    /\ st[c].pc = "page_sleep"
    /\ st[c].wake_at <= Now
    /\ st' = [st EXCEPT ![c] = IF @.page < LastPage
                               THEN [@ EXCEPT !.page = @ + 1, !.pc = "wait_top"]
                               ELSE Return(@)]
    /\ UNCHANGED <<cooldown_until, count, ev, streak, skipVars, appVars, deep_scan>>

(***************************************************************************)
(* get_file_content, one step per suspension point                         *)
(***************************************************************************)
\* get_file_content is entered by a client that is not inside search_for_keys
StartFetch(c) ==
    /\ st[c].pc \in {"idle", "returned"}
    /\ st[c].fetches < MaxFetches
    /\ st' = [st EXCEPT ![c] = [@ EXCEPT !.pc = "fetch_wait", !.back = st[c].pc,
                                         !.content = None, !.fetches = @ + 1]]
    /\ UNCHANGED <<cooldown_until, count, ev, streak, skipVars, appVars, deep_scan>>

\* _wait_if_cooldown (line 110)
FetchWait(c) ==
    /\ st[c].pc = "fetch_wait"
    /\ IF Now < cooldown_until
       THEN st' = [st EXCEPT ![c] = [@ EXCEPT !.pc = "fetch_cool_sleep",
                                              !.wake_at = Now + (cooldown_until - Now)]]
       ELSE st' = [st EXCEPT ![c] = [@ EXCEPT !.pc = "fetch_send"]]
    /\ UNCHANGED <<cooldown_until, count, ev, streak, skipVars, appVars, deep_scan>>

FetchWake(c) ==
    /\ st[c].pc = "fetch_cool_sleep"
    /\ st[c].wake_at <= Now
    /\ st' = [st EXCEPT ![c] = [@ EXCEPT !.pc = "fetch_send"]]
    /\ UNCHANGED <<cooldown_until, count, ev, streak, skipVars, appVars, deep_scan>>

\* lines 112-119: rotate the token and request the contents URL
FetchSend(c) ==
    /\ st[c].pc = "fetch_send"
    /\ LET s == st[c]
           t == NextToken(s.ntokens, s.token_ptr)
       IN st' = [st EXCEPT ![c] = [s EXCEPT !.pc = "fetch_await",
                                            !.current_token = t[1],
                                            !.token_ptr = t[2],
                                            !.auth = Authorization(t[1]),
                                            !.sent = @ + 1]]
    /\ UNCHANGED <<cooldown_until, count, ev, streak, skipVars, appVars, deep_scan>>

\* what the contents API answers: 403, another failure (status, network, body),
\* a base64 body, a body with only a download_url, a body with neither
FetchResponses == {"403", "error", "base64", "download_url", "empty"}

\* get_file_content returns
FetchReturn(s, content) == [s EXCEPT !.pc = s.back, !.content = content]

\* lines 119-133
FetchRespond(c) ==
    /\ st[c].pc = "fetch_await"
    /\ \E k \in FetchResponses :
         CASE k = "403" ->
                /\ cooldown_until' = Now + FetchPenalty
                /\ st' = [st EXCEPT ![c] = FetchReturn(@, "none")]
           [] k = "base64" ->
                /\ st' = [st EXCEPT ![c] = FetchReturn(@, "text")]
                /\ UNCHANGED cooldown_until
           [] k = "download_url" ->
                \* requests.get(download_url, timeout=20): no headers
                /\ st' = [st EXCEPT ![c] = [@ EXCEPT !.pc = "fetch_download", !.auth = 0]]
                /\ UNCHANGED cooldown_until
           [] OTHER ->
                /\ st' = [st EXCEPT ![c] = FetchReturn(@, "none")]
                /\ UNCHANGED cooldown_until
    /\ UNCHANGED <<count, ev, streak, skipVars, appVars, deep_scan>>

\* line 131: the raw file arrives, or the request raises and `except: pass`
FetchDownload(c) ==
    /\ st[c].pc = "fetch_download"
    /\ \E content \in {"text", "none"} :
         st' = [st EXCEPT ![c] = FetchReturn(@, content)]
    /\ UNCHANGED <<cooldown_until, count, ev, streak, skipVars, appVars, deep_scan>>

FetchStep(c) ==
    \/ StartFetch(c)
    \/ FetchWait(c)
    \/ FetchWake(c)
    \/ FetchSend(c)
    \/ FetchRespond(c)
    \/ FetchDownload(c)

(***************************************************************************)
(* The clock                                                               *)
(***************************************************************************)
SleepPcs == {"cool_sleep_top", "cool_sleep_retry", "backoff_sleep", "page_sleep",
             "fetch_cool_sleep"}

\* the timestamps still ahead of the clock
Pending ==
    { t \in {cooldown_until} \cup { st[c].wake_at : c \in Callers } : t > Now }

Earliest(S) == CHOOSE t \in S : \A u \in S : t <= u

\* time passes up to the next pending timestamp
Elapse ==
    /\ Pending # {}
    /\ LET d == Earliest(Pending) - Now
       IN /\ cooldown_until' = Max(Now, cooldown_until - d)
          /\ st' = [c \in Callers |-> [st[c] EXCEPT !.wake_at = Max(Now, @ - d)]]
    /\ UNCHANGED <<count, ev, streak, skipVars, appVars, deep_scan>>

(***************************************************************************)
(* Checkpoint (file_manager.py) and should_skip_item (hajimi_king.py)      *)
(***************************************************************************)
MaxShas == 2             \* content identifiers explored
MaxEvals == 2            \* should_skip_item calls explored in one run

Shas == 1..MaxShas       \* a hit's sha; 0 stands for a missing or empty sha

DATE_RANGE_DAYS == 365   \* Config.DATE_RANGE_DAYS, the default

\* Config.FILE_PATH_BLACKLIST, the default; a string is the tuple of its characters
FILE_PATH_BLACKLIST ==
    { <<"r", "e", "a", "d", "m", "e">>,
      <<"d", "o", "c", "s">>,
      <<"d", "o", "c", "/">>,
      <<".", "m", "d">>,
      <<"s", "a", "m", "p", "l", "e">>,
      <<"t", "u", "t", "o", "r", "i", "a", "l">>,
      <<"n", "o", "d", "e", "_", "m", "o", "d", "u", "l", "e", "s">> }

Paths ==
    { <<"s", "r", "c", "/", "a", "p", "p", ".", "p", "y">>,
      <<"R", "E", "A", "D", "M", "E">>,
      <<"D", "o", "c", "/", "k", ".", "p", "y">> }

\* str.lower() on the letters the paths and the exception texts use
LowerChar(ch) ==
    CASE ch = "R" -> "r" [] ch = "E" -> "e" [] ch = "A" -> "a"
      [] ch = "D" -> "d" [] ch = "M" -> "m" [] ch = "Q" -> "q"
      [] ch = "B" -> "b" [] OTHER -> ch

Lower(str) == [i \in 1..Len(str) |-> LowerChar(str[i])]

\* token in string
Contains(token, str) ==
    \E i \in 1..(Len(str) - Len(token) + 1) :
        SubSeq(str, i, i + Len(token) - 1) = token

\* Times are counted in days.  A stored timestamp is text: kind "ts" parses to
\* the day t, kind "junk" makes the parser raise ValueError, kind "none" is
\* None (last_scan_time) or a missing pushed_at.
NoTime == [kind |-> "none", t |-> 0]
Junk == [kind |-> "junk", t |-> 0]
Stamp(t) == [kind |-> "ts", t |-> t]

PushTimes == {10, 35, 200, 300}
ScanTimes == {200}
UtcNows == {400}

Items ==
    [sha : {0} \cup Shas,
     pushed_at : {NoTime, Junk} \cup { Stamp(t) : t \in PushTimes },
     path : Paths]

\* Checkpoint(): the dataclass defaults
NewCheckpoint ==
    [last_scan_time |-> NoTime, scanned_shas |-> {}, processed_queries |-> {},
     wait_send_balancer |-> {}, wait_send_gpt_load |-> {}]

NoSkip == [skip |-> FALSE, reason |-> "pending", raised |-> FALSE]
Result(b, reason) == [skip |-> b, reason |-> reason, raised |-> FALSE]
Raised == [skip |-> FALSE, reason |-> "", raised |-> TRUE]

\* lines 138-147: the time filter; every exception inside it is swallowed
TimeFiltered(it, ck) ==
    /\ ck.last_scan_time.kind # "none"
    /\ ck.last_scan_time.kind = "ts"
    /\ it.pushed_at.kind = "ts"
    /\ it.pushed_at.t <= ck.last_scan_time.t

\* the sha filter ahead of every other test
should_skip_item_ShaLast(it, ck, now) ==
    IF TimeFiltered(it, ck) THEN Result(TRUE, "time_filter")
    ELSE IF it.pushed_at.kind = "junk" THEN Raised
    ELSE IF it.pushed_at.kind = "ts" /\ it.pushed_at.t < now - DATE_RANGE_DAYS
         THEN Result(TRUE, "age_filter")
    ELSE IF \E token \in FILE_PATH_BLACKLIST : Contains(token, Lower(it.path))
         THEN Result(TRUE, "doc_filter")
    ELSE IF it.sha \in ck.scanned_shas THEN Result(TRUE, "sha_duplicate")
    ELSE Result(FALSE, "")

\* should_skip_item(item, checkpoint), with utcnow() = now
should_skip_item(it, ck, now) ==
    IF TimeFiltered(it, ck) THEN Result(TRUE, "time_filter")
    ELSE IF it.sha \in ck.scanned_shas THEN Result(TRUE, "sha_duplicate")
    ELSE IF it.pushed_at.kind = "junk" THEN Raised   \* strptime outside the try
    ELSE IF it.pushed_at.kind = "ts" /\ it.pushed_at.t < now - DATE_RANGE_DAYS
         THEN Result(TRUE, "age_filter")
    ELSE IF \E token \in FILE_PATH_BLACKLIST : Contains(token, Lower(it.path))
         THEN Result(TRUE, "doc_filter")
    ELSE Result(FALSE, "")

Reasons == {"time_filter", "sha_duplicate", "age_filter", "doc_filter"}

\* the crawl flow asks whether to skip the hit at hand
ShouldSkipItem ==
    /\ skip = NoSkip
    /\ evals < MaxEvals
    /\ LET r == should_skip_item(item, checkpoint, utcnow)
       IN /\ skip' = r
          /\ skip_stats' = IF r.skip THEN [skip_stats EXCEPT ![r.reason] = @ + 1]
                           ELSE skip_stats
    /\ evals' = evals + 1
    /\ UNCHANGED <<ghVars, appVars, deep_scan, checkpoint, item, utcnow>>

\* the set keeps the newest sha only
add_scanned_sha_Replace(ck, sha) ==
    IF sha # 0 THEN [ck EXCEPT !.scanned_shas = {sha}] ELSE ck

\* Checkpoint.add_scanned_sha
add_scanned_sha(ck, sha) ==
    IF sha # 0 THEN [ck EXCEPT !.scanned_shas = @ \cup {sha}] ELSE ck

\* the hit was not skipped: it is processed and its sha is recorded
AddScannedSha ==
    /\ skip # NoSkip
    /\ ~skip.skip /\ ~skip.raised
    /\ checkpoint' = add_scanned_sha(checkpoint, item.sha)
    /\ UNCHANGED <<ghVars, appVars, deep_scan, item, utcnow, skip, skip_stats, evals>>

\* Checkpoint.update_scan_time(), between two hits
UpdateScanTime ==
    /\ skip # NoSkip
    /\ checkpoint' = [checkpoint EXCEPT !.last_scan_time = Stamp(utcnow)]
    /\ UNCHANGED <<ghVars, appVars, deep_scan, item, utcnow, skip, skip_stats, evals>>

\* the search hands over the next hit (it may be the same hit again)
NextItem ==
    /\ skip # NoSkip
    /\ evals < MaxEvals
    /\ item' \in Items
    /\ skip' = NoSkip
    /\ UNCHANGED <<ghVars, appVars, deep_scan, checkpoint, utcnow, skip_stats, evals>>

(***************************************************************************)
(* FileManager: the checkpoint on disk (file_manager.py)                   *)
(*                                                                         *)
(* checkpoint.json holds Checkpoint.to_dict() as JSON text; the scanned    *)
(* shas are kept apart in a text file, one sha per line under a comment    *)
(* header.  Both files are opened with mode "w", which truncates the file  *)
(* in place before anything is written.  The process can be killed         *)
(* between any two steps of a save.                                        *)
(***************************************************************************)
MaxKeys == 2             \* candidate keys explored
MaxOps == 3              \* operations started in one run: crawl thread calls and batch submissions

Main == 0                \* the crawl thread
NWorkers == 2            \* ThreadPoolExecutor(max_workers=2)
Workers == 1..NWorkers
Threads == {Main} \cup Workers

Keys == 1..MaxKeys       \* the keys found in file contents
QueryNames == {1}        \* normalised query strings kept in processed_queries

\* sorted(S), also the order list(S) is taken to produce
RECURSIVE sorted(_)
sorted(S) ==
    IF S = {} THEN <<>>
    ELSE LET x == CHOOSE x \in S : \A y \in S : x <= y
         IN <<x>> \o sorted(S \ {x})

\* set(list)
set(list) == { list[i] : i \in 1..Len(list) }

\* Checkpoint.to_dict: scanned_shas is left out, the sets become lists
to_dict(ck) ==
    [last_scan_time |-> ck.last_scan_time,
     processed_queries |-> sorted(ck.processed_queries),
     wait_send_balancer |-> sorted(ck.wait_send_balancer),
     wait_send_gpt_load |-> sorted(ck.wait_send_gpt_load)]

\* last_scan_time is not read back
from_dict_NoScanTime(data) ==
    [last_scan_time |-> NoTime,
     scanned_shas |-> {},
     processed_queries |-> set(data.processed_queries),
     wait_send_balancer |-> set(data.wait_send_balancer),
     wait_send_gpt_load |-> set(data.wait_send_gpt_load)]

\* Checkpoint.from_dict: the lists become sets, scanned_shas starts empty
from_dict(data) ==
    [last_scan_time |-> data.last_scan_time,
     scanned_shas |-> {},
     processed_queries |-> set(data.processed_queries),
     wait_send_balancer |-> set(data.wait_send_balancer),
     wait_send_gpt_load |-> set(data.wait_send_gpt_load)]

\* checkpoint.json.  kind "missing": no such file; "json": the text json.dump
\* wrote for the dict data; "truncated": an empty file or a proper prefix of
\* such a text (json.load raises JSONDecodeError); "nonobject": JSON text of a
\* value that is not an object (data.get raises AttributeError); "badtype": an
\* object whose list fields are null (set(None) raises TypeError).
JsonFile(kind, data) == [kind |-> kind, data |-> data]
NoJson == to_dict(NewCheckpoint)
CorruptKinds == {"truncated", "nonobject", "badtype"}

\* the scanned-shas file: kind "missing" or "text" with its lines
CommentLine == [kind |-> "comment", sha |-> 0]
BlankLine == [kind |-> "blank", sha |-> 0]
ShaLine(sha) == [kind |-> "sha", sha |-> sha]
TextFile(lines) == [kind |-> "text", lines |-> lines]
NoFile == [kind |-> "missing", lines |-> <<>>]

\* save_scanned_shas, the text written: two comment lines, a blank line, then
\* the shas in sorted order
ShaFileLines(scanned_shas) ==
    LET shas == sorted(scanned_shas)
    IN <<CommentLine, CommentLine, BlankLine>> \o
       [i \in 1..Len(shas) |-> ShaLine(shas[i])]

\* load_scanned_shas: the stripped lines that are not empty and are no comment
load_scanned_shas(file) ==
    IF file.kind # "text" THEN {}
    ELSE { file.lines[i].sha : i \in { j \in 1..Len(file.lines) :
                                        file.lines[j].kind = "sha" } }

\* lines 117-122 without the try: the outcome of json.load and from_dict
parse_checkpoint(file) ==
    IF file.kind = "json"
    THEN [raised |-> FALSE, checkpoint |-> from_dict(file.data)]
    ELSE [raised |-> TRUE, checkpoint |-> NewCheckpoint]

\* the exception of json.load or from_dict escapes from load_checkpoint
read_checkpoint_NoCatch(file) == parse_checkpoint(file)

\* lines 115-122: `except Exception` keeps the fresh Checkpoint()
read_checkpoint(file) ==
    LET r == parse_checkpoint(file)
    IN IF r.raised THEN [raised |-> FALSE, checkpoint |-> NewCheckpoint] ELSE r

\* the crawler process.  pc: "down" (not running), "up" (between operations),
\* or a position inside save_checkpoint; ret: "load" while the save is the one
\* load_checkpoint makes for a missing checkpoint.json; failed: a write of the
\* save under way raised (and was logged); from: the kind of checkpoint.json
\* the last load_checkpoint found; raised: load_checkpoint raised; ops: the
\* operations started since the program start (history); ids: the non-empty
\* shas load_checkpoint found or add_scanned_sha was given since (history);
\* before: the identifiers in the scanned-shas file when the last
\* load_checkpoint was entered (history).
Down == [pc |-> "down", ret |-> "up", failed |-> FALSE, from |-> "none",
         raised |-> FALSE, ops |-> 0, ids |-> {}, before |-> {}]
SavePcs == {"save_begin", "shas_open", "ckpt_begin", "ckpt_open"}

NeverSaved == [some |-> FALSE, clean |-> FALSE, torn |-> FALSE,
               checkpoint |-> NewCheckpoint]

\* the program starts: file_manager.py line 218, load_checkpoint()
LoadCheckpoint ==
    /\ run.pc = "down"
    /\ ~run.raised
    /\ IF disk.checkpoint_file.kind = "missing"
       THEN \* line 124: save_checkpoint(Checkpoint())
            /\ checkpoint' = NewCheckpoint
            /\ run' = [Down EXCEPT !.pc = "save_begin", !.ret = "load",
                                   !.from = "missing",
                                   !.before = load_scanned_shas(disk.scanned_shas_file)]
       ELSE LET r == read_checkpoint(disk.checkpoint_file)
            IN IF r.raised
               THEN /\ run' = [Down EXCEPT !.raised = TRUE,
                                           !.from = disk.checkpoint_file.kind]
                    /\ UNCHANGED checkpoint
               ELSE /\ checkpoint' =
                         [r.checkpoint EXCEPT !.scanned_shas =
                              load_scanned_shas(disk.scanned_shas_file)]
                    /\ run' = [Down EXCEPT !.pc = "up",
                                           !.from = disk.checkpoint_file.kind,
                                           !.ids = load_scanned_shas(disk.scanned_shas_file),
                                           !.before = load_scanned_shas(disk.scanned_shas_file)]
    /\ UNCHANGED <<ghVars, deep_scan, item, utcnow, skip, skip_stats, evals, disk, saved,
                   saving_checkpoint, sync_utils, pi>>

\* the crawl flow records a processed hit (sha 0: the hit has no sha)
MarkScanned ==
    /\ run.pc = "up"
    /\ sync_utils.th[Main].pc = "idle"
    /\ run.ops < MaxOps
    /\ \E sha \in {0} \cup Shas :
         /\ checkpoint' = add_scanned_sha(checkpoint, sha)
         /\ run' = [run EXCEPT !.ops = @ + 1, !.ids = @ \cup ({sha} \ {0})]
    /\ UNCHANGED <<ghVars, deep_scan, item, utcnow, skip, skip_stats, evals, disk, saved,
                   saving_checkpoint, sync_utils, pi>>

\* Checkpoint.add_processed_query (0: the empty string)
add_processed_query(ck, query) ==
    IF query # 0 THEN [ck EXCEPT !.processed_queries = @ \cup {query}] ELSE ck

AddProcessedQuery ==
    /\ run.pc = "up"
    /\ sync_utils.th[Main].pc = "idle"
    /\ run.ops < MaxOps
    /\ \E query \in {0} \cup QueryNames :
         checkpoint' = add_processed_query(checkpoint, query)
    /\ run' = [run EXCEPT !.ops = @ + 1]
    /\ UNCHANGED <<ghVars, deep_scan, item, utcnow, skip, skip_stats, evals, disk, saved,
                   saving_checkpoint, sync_utils, pi>>

\* Checkpoint.update_scan_time
update_scan_time(ck, now) == [ck EXCEPT !.last_scan_time = Stamp(now)]

MarkScanTime ==
    /\ run.pc = "up"
    /\ sync_utils.th[Main].pc = "idle"
    /\ run.ops < MaxOps
    /\ \E now \in UtcNows : checkpoint' = update_scan_time(checkpoint, now)
    /\ run' = [run EXCEPT !.ops = @ + 1]
    /\ UNCHANGED <<ghVars, deep_scan, item, utcnow, skip, skip_stats, evals, disk, saved,
                   saving_checkpoint, sync_utils, pi>>

\* the crawl flow calls file_manager.save_checkpoint(checkpoint)
SaveCheckpoint ==
    /\ run.pc = "up"
    /\ sync_utils.th[Main].pc = "idle"
    /\ run' = [run EXCEPT !.pc = "save_begin", !.ret = "up", !.failed = FALSE]
    /\ UNCHANGED <<ghVars, deep_scan, skipVars, disk, saved, saving_checkpoint, sync_utils, pi>>

\* line 161: open(scanned_shas_file, "w") truncates the file
OpenShas ==
    /\ run.pc = "save_begin"
    /\ disk' = [disk EXCEPT !.scanned_shas_file = TextFile(<<>>)]
    /\ run' = [run EXCEPT !.pc = "shas_open"]
    /\ saved' = [saved EXCEPT !.clean = FALSE]
    /\ UNCHANGED <<ghVars, deep_scan, skipVars, saving_checkpoint, sync_utils, pi>>

\* lines 162-164: the lines are written and the file is closed, or a write
\* raises (disk full) and the error is logged
WriteShas ==
    /\ run.pc = "shas_open"
    /\ \/ /\ disk' = [disk EXCEPT !.scanned_shas_file =
                          TextFile(ShaFileLines(checkpoint.scanned_shas))]
          /\ run' = [run EXCEPT !.pc = "ckpt_begin"]
          /\ UNCHANGED saved
       \/ /\ run' = [run EXCEPT !.pc = "ckpt_begin", !.failed = TRUE]
          /\ saved' = [saved EXCEPT !.torn = TRUE]
          /\ UNCHANGED disk
    /\ UNCHANGED <<ghVars, deep_scan, skipVars, saving_checkpoint, sync_utils, pi>>

\* line 155: open(checkpoint_file, "w") truncates the file
OpenCheckpoint ==
    /\ run.pc = "ckpt_begin"
    /\ disk' = [disk EXCEPT !.checkpoint_file = JsonFile("truncated", NoJson)]
    /\ run' = [run EXCEPT !.pc = "ckpt_open"]
    /\ UNCHANGED <<ghVars, deep_scan, skipVars, saved, saving_checkpoint, sync_utils, pi>>

\* save_checkpoint returns; under load_checkpoint, line 125 follows
AfterSave(ck, d) ==
    IF run.ret = "load"
    THEN [ck EXCEPT !.scanned_shas = load_scanned_shas(d.scanned_shas_file)]
    ELSE ck

\* lines 156-157: json.dump writes to_dict() and the file is closed, or a
\* write raises and the error is logged
WriteCheckpoint ==
    /\ run.pc = "ckpt_open"
    /\ \/ /\ disk' = [disk EXCEPT !.checkpoint_file =
                          JsonFile("json", to_dict(checkpoint))]
          /\ saved' = IF run.failed THEN saved
                      ELSE [some |-> TRUE, clean |-> TRUE, torn |-> FALSE,
                            checkpoint |-> checkpoint]
       \/ /\ saved' = [saved EXCEPT !.torn = TRUE]
          /\ UNCHANGED disk
    /\ checkpoint' = AfterSave(checkpoint, disk')
    /\ run' = [run EXCEPT !.pc = "up", !.ret = "up", !.failed = FALSE,
                          !.ids = IF run.ret = "load" THEN checkpoint'.scanned_shas ELSE @]
    /\ UNCHANGED <<ghVars, deep_scan, item, utcnow, skip, skip_stats, evals,
                   saving_checkpoint, sync_utils, pi>>

\* the process is killed or exits; the objects in memory are gone
Crash ==
    /\ run.pc # "down"
    /\ run' = Down
    /\ checkpoint' = NewCheckpoint
    /\ UNCHANGED <<ghVars, deep_scan, item, utcnow, skip, skip_stats, evals, disk, saved,
                   saving_checkpoint, sync_utils, pi>>

(***************************************************************************)
(* SyncUtils (sync_utils.py): add_keys_to_queue runs on the crawl thread,  *)
(* _batch_send_worker on the threads of a two-worker executor, submitted   *)
(* by a timer.  saving_checkpoint is a plain attribute: it is read and     *)
(* written without a lock, so a thread can be preempted between its test   *)
(* of the flag and its assignment.                                         *)
(***************************************************************************)
Frame(pc, keys) == [pc |-> pc, keys |-> keys]
Idle == Frame("idle", {})

\* file_manager.save_checkpoint(checkpoint) with every write succeeding
save_checkpoint(ck) ==
    [checkpoint_file |-> JsonFile("json", to_dict(ck)),
     scanned_shas_file |-> TextFile(ShaFileLines(ck.scanned_shas))]

\* SyncUtils(): the switches come from the configuration
SyncUtils(balancer_enabled, gpt_load_enabled) ==
    [balancer_enabled |-> balancer_enabled,
     gpt_load_enabled |-> gpt_load_enabled,
     th |-> [t \in Threads |-> Idle]]

Goto(t, frame) == sync_utils' = [sync_utils EXCEPT !.th[t] = frame]

\* the guarded section: from the assignment of True to the assignment of False
Inside(t) == sync_utils.th[t].pc \in {"inside", "sending", "save", "finally"}

\* line 51: add_keys_to_queue(keys) is called; an empty list returns at once
AddKeysToQueue ==
    /\ run.pc = "up"
    /\ sync_utils.th[Main].pc = "idle"
    /\ run.ops < MaxOps
    /\ \E keys \in SUBSET Keys :
         Goto(Main, IF keys = {} THEN Idle ELSE Frame("spin", keys))
    /\ run' = [run EXCEPT !.ops = @ + 1]
    /\ UNCHANGED <<ghVars, deep_scan, skipVars, disk, saved, saving_checkpoint, pi>>

\* lines 53-54: the flag is found False (while it is True the thread sleeps)
AddKeysTest ==
    /\ sync_utils.th[Main].pc = "spin"
    /\ ~saving_checkpoint
    /\ Goto(Main, [sync_utils.th[Main] EXCEPT !.pc = "set"])
    /\ UNCHANGED <<ghVars, deep_scan, skipVars, disk, run, saved, saving_checkpoint, pi>>

\* line 56
AddKeysSet ==
    /\ sync_utils.th[Main].pc = "set"
    /\ saving_checkpoint' = TRUE
    /\ Goto(Main, [sync_utils.th[Main] EXCEPT !.pc = "inside"])
    /\ UNCHANGED <<ghVars, deep_scan, skipVars, disk, run, saved, pi>>

\* lines 58-63
update_queues(ck, keys) ==
    [ck EXCEPT
       !.wait_send_balancer = IF sync_utils.balancer_enabled THEN @ \cup keys ELSE @,
       !.wait_send_gpt_load = IF sync_utils.gpt_load_enabled THEN @ \cup keys ELSE @]

\* lines 58-65: the keys join the pending sets and the checkpoint is saved
AddKeysBody ==
    /\ sync_utils.th[Main].pc = "inside"
    /\ checkpoint' = update_queues(checkpoint, sync_utils.th[Main].keys)
    /\ disk' = save_checkpoint(checkpoint')
    /\ Goto(Main, [sync_utils.th[Main] EXCEPT !.pc = "finally"])
    /\ UNCHANGED <<ghVars, deep_scan, item, utcnow, skip, skip_stats, evals, run, saved,
                   saving_checkpoint, pi>>

\* lines 66-67
AddKeysFinally ==
    /\ sync_utils.th[Main].pc = "finally"
    /\ saving_checkpoint' = FALSE
    /\ Goto(Main, Idle)
    /\ UNCHANGED <<ghVars, deep_scan, skipVars, disk, run, saved, pi>>

\* lines 109-114: the timer submits _batch_send_worker to a free executor thread
StartBatchSender(w) ==
    /\ run.pc = "up"
    /\ sync_utils.th[w].pc = "idle"
    /\ run.ops < MaxOps
    /\ Goto(w, Frame("test", {}))
    /\ run' = [run EXCEPT !.ops = @ + 1]
    /\ UNCHANGED <<ghVars, deep_scan, skipVars, disk, saved, saving_checkpoint, pi>>

\* line 118: if self.saving_checkpoint: return
BatchTest(w) ==
    /\ sync_utils.th[w].pc = "test"
    /\ Goto(w, IF saving_checkpoint THEN Idle ELSE Frame("set", {}))
    /\ UNCHANGED <<ghVars, deep_scan, skipVars, disk, run, saved, saving_checkpoint, pi>>

\* line 119
BatchSet(w) ==
    /\ sync_utils.th[w].pc = "set"
    /\ saving_checkpoint' = TRUE
    /\ Goto(w, Frame("inside", {}))
    /\ UNCHANGED <<ghVars, deep_scan, skipVars, disk, run, saved, pi>>

\* lines 121-123: the pending set is copied and sent, if there is one
BatchSend(w) ==
    /\ sync_utils.th[w].pc = "inside"
    /\ Goto(w, IF checkpoint.wait_send_balancer # {} /\ sync_utils.balancer_enabled
               THEN Frame("sending", checkpoint.wait_send_balancer)
               ELSE Frame("save", {}))
    /\ UNCHANGED <<ghVars, deep_scan, skipVars, disk, run, saved, saving_checkpoint, pi>>

\* what _send_balancer_worker can return
SendResults == {"ok", "err_get_config", "exception"}

\* lines 123-125: on "ok" the whole pending set is cleared
BatchSent(w) ==
    /\ sync_utils.th[w].pc = "sending"
    /\ \E result \in SendResults :
         checkpoint' = IF result = "ok"
                       THEN [checkpoint EXCEPT !.wait_send_balancer = {}]
                       ELSE checkpoint
    /\ Goto(w, Frame("save", sync_utils.th[w].keys))
    /\ UNCHANGED <<ghVars, deep_scan, item, utcnow, skip, skip_stats, evals, disk, run, saved,
                   saving_checkpoint, pi>>

\* line 129
BatchSave(w) ==
    /\ sync_utils.th[w].pc = "save"
    /\ disk' = save_checkpoint(checkpoint)
    /\ Goto(w, Frame("finally", {}))
    /\ UNCHANGED <<ghVars, deep_scan, skipVars, run, saved, saving_checkpoint, pi>>

\* lines 132-133
BatchFinally(w) ==
    /\ sync_utils.th[w].pc = "finally"
    /\ saving_checkpoint' = FALSE
    /\ Goto(w, Idle)
    /\ UNCHANGED <<ghVars, deep_scan, skipVars, disk, run, saved, pi>>

(***************************************************************************)
(* process_item and validate_gemini_key (hajimi_king.py)                   *)
(*                                                                         *)
(* A file content is the sequence of the key occurrences the pattern       *)
(* finds in it, each with what stands in the 45 characters from its start: *)
(* "dots" when "..." follows the key, "your" when YOUR_ is in the snippet, *)
(* "plain" otherwise.  Outcome strings and exception texts are tuples of   *)
(* characters, so that the substring tests of the code are computed.       *)
(***************************************************************************)
MaxOccurrences == 2      \* key occurrences in one file content

Tails == {"plain", "dots", "your"}
Occurrences == [key : Keys, tail : Tails]

RECURSIVE SeqsUpTo(_, _)
SeqsUpTo(S, n) ==
    IF n = 0 THEN {<<>>}
    ELSE LET shorter == SeqsUpTo(S, n - 1)
         IN shorter \cup { Append(q, x) : q \in { r \in shorter : Len(r) = n - 1 },
                                         x \in S }

\* what get_file_content returns; <<>> also stands for a failed fetch (None)
Contents == SeqsUpTo(Occurrences, MaxOccurrences)

\* re.findall: every occurrence, in order
extract_keys_from_content(content) == [i \in 1..Len(content) |-> content[i].key]

\* content.find(key): the first occurrence of the key
find(content, key) ==
    CHOOSE i \in 1..Len(content) :
        /\ content[i].key = key
        /\ \A j \in 1..(i - 1) : content[j].key # key

\* line 185, on the snippet that starts at occurrence idx
IsPlaceholder(content, idx) == content[idx].tail \in {"dots", "your"}

\* lines 179-188: keys = list(set(filtered_keys))
filter_keys(content) ==
    LET keys == extract_keys_from_content(content)
    IN { keys[i] : i \in { j \in 1..Len(keys) :
                             ~IsPlaceholder(content, find(content, keys[j])) } }

Ok == <<"o", "k">>
NotAuthorizedKey ==
    <<"n", "o", "t", "_", "a", "u", "t", "h", "o", "r", "i", "z", "e", "d", "_", "k", "e", "y">>
RateLimited == <<"r", "a", "t", "e", "_", "l", "i", "m", "i", "t", "e", "d">>
RateLimited429 == <<"r", "a", "t", "e", "_", "l", "i", "m", "i", "t", "e", "d", ":", "4", "2", "9">>
Disabled == <<"d", "i", "s", "a", "b", "l", "e", "d">>
ErrorPrefix == <<"e", "r", "r", "o", "r", ":">>

\* what model.generate_content("hi") does for a key: it returns, or raises an
\* exception of class cls (bases: the google.api_core classes it derives
\* from) with the text str(e)
Success == [kind |-> "success", cls |-> <<>>, bases |-> {}, text |-> <<>>]
Exc(cls, bases, text) ==
    [kind |-> "exception", cls |-> cls, bases |-> bases, text |-> text]

ApiResponses ==
    { Success,
      Exc(<<"P", "e", "r", "m", "i", "s", "s", "i", "o", "n", "D", "e", "n", "i", "e", "d">>,
          {"PermissionDenied"},
          <<"4", "0", "3", " ", "d", "e", "n", "i", "e", "d">>),
      Exc(<<"U", "n", "a", "u", "t", "h", "e", "n", "t", "i", "c", "a", "t", "e", "d">>,
          {"Unauthenticated"},
          <<"4", "0", "1">>),
      Exc(<<"R", "e", "s", "o", "u", "r", "c", "e", "E", "x", "h", "a", "u", "s", "t", "e", "d">>,
          {"TooManyRequests"},
          <<"4", "2", "9", " ", "Q", "u", "o", "t", "a">>),
      Exc(<<"R", "e", "t", "r", "y", "E", "r", "r", "o", "r">>, {}, <<"Q", "u", "o", "t", "a">>),
      Exc(<<"G", "o", "o", "g", "l", "e", "A", "P", "I", "C", "a", "l", "l", "E", "r", "r", "o", "r">>,
          {},
          <<"4", "0", "3">>),
      Exc(<<"B", "r", "o", "k", "e", "n", "P", "i", "p", "e", "E", "r", "r", "o", "r">>,
          {},
          <<"B", "r", "o", "k", "e", "n", " ", "p", "i", "p", "e">>),
      Exc(<<"T", "i", "m", "e", "o", "u", "t", "E", "r", "r", "o", "r">>,
          {},
          <<"t", "i", "m", "e", "d", " ", "o", "u", "t">>) }

\* line 234 and line 235: the texts looked for in str(e)
RateLimitTexts ==
    { <<"4", "2", "9">>,
      <<"r", "a", "t", "e", " ", "l", "i", "m", "i", "t">>,
      <<"q", "u", "o", "t", "a">> }
DisabledTexts ==
    { <<"4", "0", "3">>,
      <<"S", "E", "R", "V", "I", "C", "E", "_", "D", "I", "S", "A", "B", "L", "E", "D">>,
      <<"A", "P", "I", " ", "h", "a", "s", " ", "n", "o", "t", " ", "b", "e", "e", "n", " ", "u", "s", "e", "d">> }

\* lines 233-236: the last except clause
classify_exception(resp) ==
    IF \E x \in RateLimitTexts : Contains(x, Lower(resp.text))
    THEN RateLimited429
    ELSE IF \E x \in DisabledTexts : Contains(x, resp.text)
    THEN Disabled
    ELSE ErrorPrefix \o resp.cls

\* an exception of generate_content escapes from validate_gemini_key
validate_gemini_key_NoCatch(resp) ==
    IF resp.kind = "success" THEN [raised |-> FALSE, result |-> Ok]
    ELSE [raised |-> TRUE, result |-> <<>>]

\* validate_gemini_key(api_key), with the API answering resp
validate_gemini_key(resp) ==
    [raised |-> FALSE,
     result |-> IF resp.kind = "success" THEN Ok
                ELSE IF resp.bases \cap {"PermissionDenied", "Unauthenticated"} # {}
                THEN NotAuthorizedKey
                ELSE IF "TooManyRequests" \in resp.bases THEN RateLimited
                ELSE classify_exception(resp)]

\* lines 196-203: the branch process_item takes for a validation result
Classify(result) ==
    IF result # <<>> /\ Contains(Ok, result) THEN "valid"
    ELSE IF result = RateLimited THEN "rate_limited"
    ELSE "invalid"

NoResp == [kind |-> "none", cls |-> <<>>, bases |-> {}, text |-> <<>>]

\* the frame of a process_item call, the module-level PENDING_KEYS_TO_SEND and
\* the two key files of the FileManager.  resp, calls: history, the answer of
\* the API to the validation of each key and the number of validations.
ProcessIdle ==
    [pc |-> "idle", content |-> <<>>, keys |-> {}, todo |-> {},
     valid_keys |-> {}, rate_limited_keys |-> {}, raised |-> FALSE,
     PENDING_KEYS_TO_SEND |-> {}, keys_valid_file |-> {}, rate_limited_file |-> {},
     resp |-> [k \in Keys |-> NoResp], calls |-> [k \in Keys |-> 0]]

\* lines 167-192: the content is fetched and the candidate keys are extracted
ProcessItem ==
    /\ pi.pc = "idle"
    /\ \E content \in Contents :
         LET keys == filter_keys(content)
         IN pi' = [pi EXCEPT !.content = content, !.keys = keys, !.todo = keys,
                             !.pc = IF keys = {} THEN "returned" ELSE "validating"]
    /\ UNCHANGED <<ghVars, deep_scan, skipVars, disk, run, saved, saving_checkpoint, sync_utils>>

\* lines 194-203: one pass of the validation loop
ValidateKey ==
    /\ pi.pc = "validating"
    /\ pi.todo # {}
    /\ LET key == CHOOSE k \in pi.todo : \A o \in pi.todo : k <= o
       IN \E resp \in ApiResponses :
            LET v == validate_gemini_key(resp)
                c == Classify(v.result)
            IN pi' = IF v.raised
                     THEN [pi EXCEPT !.pc = "raised", !.raised = TRUE,
                                     !.resp[key] = resp, !.calls[key] = @ + 1]
                     ELSE [pi EXCEPT
                             !.todo = @ \ {key},
                             !.valid_keys = IF c = "valid" THEN @ \cup {key} ELSE @,
                             !.rate_limited_keys =
                                 IF c = "rate_limited" THEN @ \cup {key} ELSE @,
                             !.resp[key] = resp, !.calls[key] = @ + 1]
    /\ UNCHANGED <<ghVars, deep_scan, skipVars, disk, run, saved, saving_checkpoint, sync_utils>>

\* lines 205-218: the findings are stored; add_keys_to_queue runs on this
\* thread with the flag clear, so it goes through without a wait
SaveFindings ==
    /\ pi.pc = "validating"
    /\ pi.todo = {}
    /\ ~saving_checkpoint
    /\ pi' = [pi EXCEPT !.pc = "returned",
                        !.keys_valid_file = @ \cup pi.valid_keys,
                        !.PENDING_KEYS_TO_SEND = @ \cup pi.valid_keys,
                        !.rate_limited_file = @ \cup pi.rate_limited_keys]
    /\ IF pi.valid_keys # {}
       THEN /\ checkpoint' = update_queues(checkpoint, pi.valid_keys)
            /\ disk' = save_checkpoint(checkpoint')
       ELSE UNCHANGED <<checkpoint, disk>>
    /\ UNCHANGED <<ghVars, deep_scan, item, utcnow, skip, skip_stats, evals, run, saved,
                   saving_checkpoint, sync_utils>>

(***************************************************************************)
(* Specifications                                                          *)
(***************************************************************************)
NoEvent == [type |-> "none", caller |-> 0, page |-> 0, ra |-> NoHeader]

NoItem == [sha |-> 0, pushed_at |-> NoTime, path |-> <<>>]
NoStats == [r \in Reasons |-> 0]

(***************************************************************************)
(* The deep scan of one query.  The lookback window is the last `days` days *)
(* and is cut into time slices `interval` days wide, searched newest first. *)
(* A slice is the half-open range [lo, hi) of whole days before now that it *)
(* covers; day 0 is the newest day of the window, day days - 1 the oldest.  *)
(***************************************************************************)
DEEP_SCAN_INTERVAL_DAYS == 7   \* Config.DEEP_SCAN_INTERVAL_DAYS, the default

\* the lookback windows and slice widths explored
DateRanges == {1, 7, 30, DATE_RANGE_DAYS}
Intervals == {1, DEEP_SCAN_INTERVAL_DAYS, 30}

\* a slice that is a whole interval wide whatever is left of the window
TimeSlice_Uncapped(days, interval, k) ==
    [lo |-> (k - 1) * interval, hi |-> k * interval]

\* the k-th slice, newest first; the oldest slice ends with the window
TimeSlice(days, interval, k) ==
    [lo |-> (k - 1) * interval, hi |-> Min(k * interval, days)]

\* the days a slice covers
SliceDays(slice) == slice.lo..(slice.hi - 1)

\* no deep scan is under way.  k: the number of the slice at hand; covered:
\* the days the slices so far cover (history); twice: the days more than one
\* of them covers (history).
NoDeepScan ==
    [pc |-> "idle", days |-> 0, interval |-> 0, k |-> 0,
     slice |-> [lo |-> 0, hi |-> 0], covered |-> {}, twice |-> {}]

\* a deep scan of a window of `days` days that has not started
DeepScan(days, interval) ==
    [NoDeepScan EXCEPT !.pc = "start", !.days = days, !.interval = interval]

\* the scan of a query begins: the newest slice is searched
DeepScanStart ==
    /\ deep_scan.pc = "start"
    /\ LET slice == TimeSlice(deep_scan.days, deep_scan.interval, 1)
       IN deep_scan' = [deep_scan EXCEPT !.pc = "slice", !.k = 1, !.slice = slice,
                                         !.covered = SliceDays(slice)]
    /\ UNCHANGED <<ghVars, skipVars, appVars>>

\* the slice at hand is done and the window goes on: the next older slice
DeepScanNext ==
    /\ deep_scan.pc = "slice"
    /\ deep_scan.slice.hi < deep_scan.days
    /\ LET slice == TimeSlice(deep_scan.days, deep_scan.interval, deep_scan.k + 1)
       IN deep_scan' = [deep_scan EXCEPT
                           !.k = @ + 1, !.slice = slice,
                           !.covered = @ \cup SliceDays(slice),
                           !.twice = @ \cup (deep_scan.covered \cap SliceDays(slice))]
    /\ UNCHANGED <<ghVars, skipVars, appVars>>

\* the slice at hand reaches the end of the window: the query is done
DeepScanDone ==
    /\ deep_scan.pc = "slice"
    /\ deep_scan.slice.hi >= deep_scan.days
    /\ deep_scan' = [deep_scan EXCEPT !.pc = "done"]
    /\ UNCHANGED <<ghVars, skipVars, appVars>>

\* the crawl flow is not looking at hits
SkipIdle ==
    /\ checkpoint = NewCheckpoint
    /\ item = NoItem
    /\ utcnow = 0
    /\ skip = NoSkip
    /\ skip_stats = NoStats
    /\ evals = 0

\* the data directory after the first load_checkpoint of a new installation
FreshDisk == save_checkpoint(NewCheckpoint)

\* the process is running
Up == [Down EXCEPT !.pc = "up"]

\* nothing is saved or synced and no file content is processed
AppIdle ==
    /\ disk = FreshDisk
    /\ run = Up
    /\ saved = NeverSaved
    /\ saving_checkpoint = FALSE
    /\ sync_utils = SyncUtils(FALSE, FALSE)
    /\ pi = ProcessIdle

\* a GitHubClient that takes no part in the run
Off == Client(0, 0, CHOOSE q \in Queries : q.served = 0, "off")

\* no GitHubClient is searching
SearchIdle ==
    /\ cooldown_until = Now
    /\ count = 0
    /\ ev = NoEvent
    /\ streak = 0
    /\ st = [c \in Callers |-> Off]

SearchStep(c) ==
    \/ StartSearch(c)
    \/ WaitTop(c)
    \/ WakeTop(c)
    \/ SendRequest(c)
    \/ Respond(c)
    \/ WaitRetry(c)
    \/ WakeRetry(c)
    \/ WakeBackoff(c)
    \/ AfterPage(c)
    \/ WakePage(c)

\* One crawl flow: a single GitHubClient runs one search_for_keys call.
Init ==
    /\ cooldown_until = Now
    /\ count = 0
    /\ ev = NoEvent
    /\ streak = 0
    /\ \E n \in 0..MaxTokens, r \in 0..MaxRetries, q \in Queries :
         st = [c \in Callers |-> IF c = 1 THEN Client(n, r, q, "idle") ELSE Off]
    /\ SkipIdle
    /\ AppIdle
    /\ deep_scan = NoDeepScan

Next ==
    \/ \E c \in Callers : SearchStep(c)
    \/ Elapse

Spec == Init /\ [][Next]_vars

\* Two GitHubClient instances search at the same time; they share the class-level
\* cooldown state.  Each has one token and a query with at most two pages.
InitConc ==
    /\ cooldown_until = Now
    /\ count = 0
    /\ ev = NoEvent
    /\ streak = 0
    /\ \E r \in 1..2, q1 \in ShortQueries, q2 \in ShortQueries :
         st = [c \in Callers |-> IF c = 1 THEN Client(1, r, q1, "idle")
                                 ELSE IF c = 2 THEN Client(1, r, q2, "idle")
                                 ELSE Off]
    /\ SkipIdle
    /\ AppIdle
    /\ deep_scan = NoDeepScan

SpecConc == InitConc /\ [][Next]_vars

\* The same two instances run as threads of one process: the read and the
\* write of `_CONSECUTIVE_403_COUNT += 1` are separate steps.
SharedStep(c) ==
    \/ StartSearch(c)
    \/ WaitTop(c)
    \/ WakeTop(c)
    \/ SendRequest(c)
    \/ RespondShared(c)
    \/ StoreCount(c)
    \/ WaitRetry(c)
    \/ WakeRetry(c)
    \/ WakeBackoff(c)
    \/ AfterPage(c)
    \/ WakePage(c)

NextShared ==
    \/ \E c \in Callers : SharedStep(c)
    \/ Elapse

SpecShared == InitConc /\ [][NextShared]_vars

\* One crawl flow that searches and fetches file contents with the same client:
\* get_file_content runs before and after the search_for_keys call.
InitCrawl ==
    /\ cooldown_until = Now
    /\ count = 0
    /\ ev = NoEvent
    /\ streak = 0
    /\ \E n \in 0..MaxTokens, r \in 1..MaxRetries, q \in ShortQueries :
         st = [c \in Callers |-> IF c = 1 THEN Client(n, r, q, "idle") ELSE Off]
    /\ SkipIdle
    /\ AppIdle
    /\ deep_scan = NoDeepScan

NextCrawl ==
    \/ \E c \in Callers : SearchStep(c)
    \/ \E c \in Callers : FetchStep(c)
    \/ Elapse

SpecCrawl == InitCrawl /\ [][NextCrawl]_vars

\* The deep scan of one query, for each window and slice width.
InitDeep ==
    /\ SearchIdle
    /\ SkipIdle
    /\ AppIdle
    /\ \E days \in DateRanges, interval \in Intervals :
         deep_scan = DeepScan(days, interval)

NextDeep ==
    \/ DeepScanStart
    \/ DeepScanNext
    \/ DeepScanDone

SpecDeep == InitDeep /\ [][NextDeep]_vars

\* Every request gets its response, every sleep ends and the flow is scheduled.
FairSpec == Spec /\ WF_vars(Next)

\* The dedup check of the crawl flow: hits are tested against a checkpoint
\* loaded from disk (any last_scan_time text, any set of scanned shas).
InitSkip ==
    /\ SearchIdle
    /\ \E l \in {NoTime, Junk} \cup { Stamp(t) : t \in ScanTimes },
          ids \in SUBSET Shas :
         checkpoint = [NewCheckpoint EXCEPT !.last_scan_time = l, !.scanned_shas = ids]
    /\ item \in Items
    /\ utcnow \in UtcNows
    /\ skip = NoSkip
    /\ skip_stats = NoStats
    /\ evals = 0
    /\ AppIdle
    /\ deep_scan = NoDeepScan

NextSkip ==
    \/ ShouldSkipItem
    \/ AddScannedSha
    \/ UpdateScanTime
    \/ NextItem

SpecSkip == InitSkip /\ [][NextSkip]_vars

\* The checkpoint store: the program starts on a data directory left by earlier
\* runs (or by nobody), works, saves, is killed and starts again.
StoredDicts ==
    { to_dict(NewCheckpoint),
      [last_scan_time |-> Stamp(200), processed_queries |-> sorted(QueryNames),
       wait_send_balancer |-> sorted(Keys), wait_send_gpt_load |-> <<1>>] }

InitDisks ==
    [checkpoint_file :
         { JsonFile(kind, NoJson) : kind \in {"missing"} \cup CorruptKinds } \cup
         { JsonFile("json", data) : data \in StoredDicts },
     scanned_shas_file :
         {NoFile} \cup { TextFile(ShaFileLines(ids)) : ids \in SUBSET Shas }]

InitStore ==
    /\ SearchIdle
    /\ SkipIdle
    /\ disk \in InitDisks
    /\ run = Down
    /\ saved = NeverSaved
    /\ saving_checkpoint = FALSE
    /\ sync_utils = SyncUtils(FALSE, FALSE)
    /\ pi = ProcessIdle
    /\ deep_scan = NoDeepScan

NextStore ==
    \/ LoadCheckpoint
    \/ MarkScanned
    \/ AddProcessedQuery
    \/ MarkScanTime
    \/ SaveCheckpoint
    \/ OpenShas
    \/ WriteShas
    \/ OpenCheckpoint
    \/ WriteCheckpoint
    \/ Crash

SpecStore == InitStore /\ [][NextStore]_vars

\* The crawl thread and the batch sender threads of one run, on a new
\* installation; the switches of SyncUtils are whatever the configuration says.
InitSync ==
    /\ SearchIdle
    /\ SkipIdle
    /\ disk = FreshDisk
    /\ run = Up
    /\ saved = NeverSaved
    /\ saving_checkpoint = FALSE
    /\ \E b \in BOOLEAN, g \in BOOLEAN : (g => b) /\ sync_utils = SyncUtils(b, g)
    /\ pi = ProcessIdle
    /\ deep_scan = NoDeepScan

NextSync ==
    \/ MarkScanned
    \/ AddProcessedQuery
    \/ MarkScanTime
    \/ AddKeysToQueue
    \/ AddKeysTest
    \/ AddKeysSet
    \/ AddKeysBody
    \/ AddKeysFinally
    \/ \E w \in Workers :
         \/ StartBatchSender(w)
         \/ BatchTest(w)
         \/ BatchSet(w)
         \/ BatchSend(w)
         \/ BatchSent(w)
         \/ BatchSave(w)
         \/ BatchFinally(w)

SpecSync == InitSync /\ [][NextSync]_vars

\* The crawl thread processes the content of one search hit.
InitProc ==
    /\ SearchIdle
    /\ SkipIdle
    /\ disk = FreshDisk
    /\ run = Up
    /\ saved = NeverSaved
    /\ saving_checkpoint = FALSE
    /\ \E b \in BOOLEAN, g \in BOOLEAN : sync_utils = SyncUtils(b, g)
    /\ pi = ProcessIdle
    /\ deep_scan = NoDeepScan

NextProc ==
    \/ ProcessItem
    \/ ValidateKey
    \/ SaveFindings

SpecProc == InitProc /\ [][NextProc]_vars

(***************************************************************************)
(* Properties                                                              *)
(***************************************************************************)
\* caller c sends a request in this step
Sends(c) == st[c].pc = "attempt" /\ st'[c].pc = "await_response"

\* caller c handles a response of the given type in this step
Handles(c, type) ==
    /\ st[c].pc = "await_response"
    /\ st'[c].pc # "await_response"
    /\ ev'.caller = c
    /\ ev'.type = type

\* C1: under any interleaving of callers sharing the class-level cooldown
\* state, no request is sent at a time when now < cooldown_until.
C1_NoRequestDuringCooldown ==
    [][\A c \in Callers : Sends(c) => ~(Now < cooldown_until)]_vars

\* C2: in a single flow, the first request after a 403/429 for page p is again
\* for page p and is sent only once the cooldown has cleared, whatever the
\* token pool (the empty pool included) and the Retry-After header.
C2_RetryAfterCooldownClears ==
    [][\A c \in Callers :
         (Sends(c) /\ st[c].throttled_page # 0)
            => /\ st[c].page = st[c].throttled_page
               /\ ~(Now < cooldown_until)]_vars

\* the Retry-After hint as the claim reads it: the header's number, 60 when absent
ClaimedHint(h) == IF h.kind = "absent" THEN DefaultRetryAfter ELSE h.v

\* C3: every throttling response increments the violation count by one and
\* then sets cooldown_until to now + max(retry_after_hint, 60 * count).
C3_EveryThrottleSetsCooldown ==
    [][\A c \in Callers :
         Handles(c, "throttle")
            => /\ count' = count + 1
               /\ cooldown_until' = Now + Max(ClaimedHint(ev'.ra), BasePenalty * count')]_vars

\* C4: each of three consecutive throttle responses (no success in between)
\* strictly increases cooldown_until, and after the k-th one cooldown_until is
\* at least the time of that violation + 60 * k.
C4_EscalatingCooldown ==
    [][\A c \in Callers :
         (Handles(c, "throttle") /\ streak' <= 3)
            => /\ cooldown_until' > cooldown_until
               /\ cooldown_until' >= Now + BasePenalty * streak']_vars

\* C5: one successful search request resets the violation counter to zero,
\* however many violations came before it.
C5_SuccessResetsCount ==
    [][\A c \in Callers : Handles(c, "ok") => count' = 0]_vars

\* C6: a throttling response does not use up one of the page's max_retries
\* attempts: a page is given up only after max_retries attempts that failed
\* for another reason than throttling.
C6_ThrottleNotCounted ==
    \A c \in Callers :
        (st[c].pc = "after_page" /\ ~st[c].page_success)
            => st[c].fails >= st[c].max_retries

\* the query of the end-to-end scenario: page 1 holds 100 items and
\* total_count = 150, page 2 holds 50 items
Scenario150 == [tc |-> 150, served |-> 150, cap |-> 100]

\* a request for a page after the first is in flight only if the page before
\* it succeeded with at least one item, the items so far are fewer than
\* min(total_count of page 1, 1000), and the page is within 1..10
PageAfterSuccessOnly(s) ==
    (s.pc = "await_response" /\ s.page > 1)
        => /\ Len(s.all_items) > 0
           /\ s.all_items[Len(s.all_items)].page = s.page - 1
           /\ s.all_items[Len(s.all_items)].n > 0
           /\ ItemCount(s.all_items) < Min(s.tc1, ResultWindow)
           /\ s.page <= LastPage

\* the scenario never asks for page 3 and, when nothing fails, returns 150 items
ScenarioStops(s) ==
    s.query = Scenario150
        => /\ s.last_req_page <= 2
           /\ (s.pc = "returned" /\ s.faults = 0 /\ s.max_retries >= 1)
                 => /\ ItemCount(s.result.items) = 150
                    /\ s.result.total_count = 150
                    /\ s.reqs = 2

PagesUpTo(q, k) == [i \in 1..k |-> [page |-> i, n |-> PageSize(q, i)]]

Evaluates == skip = NoSkip /\ skip' # NoSkip

\* C10 as stated: for every checkpoint, a hit whose sha is already in
\* scanned_shas gets (True, "sha_duplicate").
C10_AlwaysShaDuplicate ==
    [][(Evaluates /\ item.sha \in checkpoint.scanned_shas)
          => skip' = Result(TRUE, "sha_duplicate")]_vars

\* C10, amended: a hit whose sha is already in scanned_shas is always skipped;
\* the reason is "time_filter" when last_scan_time is set and parses and the
\* hit's pushed_at is present, parses and is not later than it, and
\* "sha_duplicate" in every other case.
C10_SkippedTimeFilterFirst ==
    [][(Evaluates /\ item.sha \in checkpoint.scanned_shas)
          => skip' = Result(TRUE,
                            IF /\ checkpoint.last_scan_time.kind = "ts"
                               /\ item.pushed_at.kind = "ts"
                               /\ item.pushed_at.t <= checkpoint.last_scan_time.t
                            THEN "time_filter"
                            ELSE "sha_duplicate")]_vars

\* the second pass over a hit, with last_scan_time set: the hit was processed,
\* its sha recorded, and it is skipped as a duplicate
C10_Witness ==
    /\ evals = 2
    /\ checkpoint.last_scan_time.kind = "ts"
    /\ item.sha \in checkpoint.scanned_shas
    /\ skip = Result(TRUE, "sha_duplicate")
    /\ skip_stats["sha_duplicate"] = 1

(***************************************************************************)
(* C11.  Within one run the in-memory scanned_shas set only grows: no step *)
(* of add_scanned_sha, add_processed_query, update_scan_time,              *)
(* save_checkpoint, add_keys_to_queue or the batch sync removes a member,  *)
(* and the set holds exactly the non-empty identifiers given to            *)
(* add_scanned_sha (N distinct identifiers on an empty set: N members).    *)
(***************************************************************************)
C11_ScannedShasOnlyGrow ==
    /\ [](checkpoint.scanned_shas = run.ids)
    /\ [][checkpoint.scanned_shas \subseteq checkpoint'.scanned_shas]_vars

\* two distinct identifiers were added, and a save went by after the first
C11_Witness ==
    /\ Cardinality(checkpoint.scanned_shas) >= 2
    /\ load_scanned_shas(disk.scanned_shas_file) # {}
    /\ load_scanned_shas(disk.scanned_shas_file) # checkpoint.scanned_shas

\* load_checkpoint returns: directly, or after the save it makes for a missing
\* checkpoint.json
LoadReturns ==
    /\ run'.pc = "up"
    /\ \/ run.pc = "down"
       \/ run.pc = "ckpt_open" /\ run.ret = "load"

(***************************************************************************)
(* C12.  save_checkpoint followed by load_checkpoint, with no write        *)
(* failure and no other write to the files in between, returns a           *)
(* checkpoint equal to the saved one in all five fields.                   *)
(***************************************************************************)
C12_SaveLoadRoundTrip ==
    [][LoadReturns /\ saved.clean => checkpoint' = saved.checkpoint]_vars

\* a checkpoint with a scan time of this installation, shas, a query and
\* pending keys was saved, the process went down and has just loaded it
C12_Witness ==
    /\ run.pc = "up" /\ run.ops = 0
    /\ saved.clean
    /\ checkpoint = saved.checkpoint
    /\ \E now \in UtcNows : checkpoint.last_scan_time = Stamp(now)
    /\ checkpoint.scanned_shas # {}
    /\ checkpoint.processed_queries # {}
    /\ checkpoint.wait_send_balancer # {}
    /\ checkpoint.wait_send_gpt_load # {}

(***************************************************************************)
(* C13.  load_checkpoint does not raise on a missing or corrupt            *)
(* checkpoint.json: it returns a checkpoint with last_scan_time unset and  *)
(* with empty processed_queries, wait_send_balancer, wait_send_gpt_load.   *)
(***************************************************************************)
C13_LoadToleratesBadFile ==
    /\ [](~run.raised)
    /\ [][LoadReturns /\ run'.from \in {"missing"} \cup CorruptKinds =>
            /\ checkpoint'.last_scan_time = NoTime
            /\ checkpoint'.processed_queries = {}
            /\ checkpoint'.wait_send_balancer = {}
            /\ checkpoint'.wait_send_gpt_load = {}]_vars

\* a load has just returned from a corrupt checkpoint.json, with the shas of
\* the scanned-shas file
C13_Witness ==
    /\ run.pc = "up" /\ run.ops = 0
    /\ run.from \in CorruptKinds
    /\ checkpoint.scanned_shas # {}

(***************************************************************************)
(* C14.  The checkpoint is written atomically: when the process is killed  *)
(* during save_checkpoint, the next load_checkpoint returns at least the   *)
(* scanned identifiers and the pending-sync keys of the last complete      *)
(* save (no write of which had failed).                                    *)
(***************************************************************************)
C14_AtomicSave ==
    [][LoadReturns /\ saved.some /\ ~saved.torn =>
         /\ saved.checkpoint.scanned_shas \subseteq checkpoint'.scanned_shas
         /\ saved.checkpoint.wait_send_balancer \subseteq checkpoint'.wait_send_balancer
         /\ saved.checkpoint.wait_send_gpt_load \subseteq checkpoint'.wait_send_gpt_load]_vars

\* the outcome validate_gemini_key returned for the key
Outcome(k) == validate_gemini_key(pi.resp[k]).result

(***************************************************************************)
(* C15.  process_item records a candidate as valid (valid-keys store,      *)
(* sync queues) only if validate_gemini_key returned the outcome ok for    *)
(* it; no other outcome (not_authorized_key, rate_limited,                 *)
(* rate_limited:429, disabled, error:<ExceptionClassName>) is recorded as  *)
(* valid.                                                                  *)
(***************************************************************************)
C15_ValidOnlyIfOk ==
    \A k \in pi.keys_valid_file \cup checkpoint.wait_send_balancer
                                \cup checkpoint.wait_send_gpt_load :
        Outcome(k) = Ok

\* a rate-limit signal: TooManyRequests, or a text with 429, rate limit or quota
RateLimitSignal(resp) ==
    /\ resp.kind = "exception"
    /\ \/ "TooManyRequests" \in resp.bases
       \/ \E x \in RateLimitTexts : Contains(x, Lower(resp.text))

(***************************************************************************)
(* C16.  Every candidate whose validation call was rejected with a         *)
(* rate-limit signal is classified rate_limited by process_item and saved  *)
(* to the rate-limited store.                                              *)
(***************************************************************************)
C16_RateLimitedSaved ==
    pi.pc = "returned" =>
        \A k \in pi.keys :
            RateLimitSignal(pi.resp[k]) =>
                k \in pi.rate_limited_keys /\ k \in pi.rate_limited_file

(***************************************************************************)
(* C17.  For one process_item call the keys saved as valid and the keys    *)
(* saved as rate-limited are disjoint, and the keys added to the           *)
(* pending-sync queues are the valid ones: every key saved as valid is     *)
(* queued (on each queue that is switched on) and no candidate whose       *)
(* validation did not succeed is in wait_send_balancer or                  *)
(* wait_send_gpt_load.                                                     *)
(***************************************************************************)
C17_OnlyValidQueued ==
    pi.pc = "returned" =>
        /\ pi.keys_valid_file \cap pi.rate_limited_file = {}
        /\ sync_utils.balancer_enabled =>
               pi.keys_valid_file \subseteq checkpoint.wait_send_balancer
        /\ sync_utils.gpt_load_enabled =>
               pi.keys_valid_file \subseteq checkpoint.wait_send_gpt_load
        /\ \A k \in checkpoint.wait_send_balancer \cup checkpoint.wait_send_gpt_load :
               pi.resp[k].kind = "success"

C19_NoPlaceholderValidated ==
    \A k \in pi.keys :
        \A i \in 1..Len(pi.content) :
            pi.content[i].key = k => ~IsPlaceholder(pi.content, i)

(***************************************************************************)
(* C20.  The saving_checkpoint guard is single-flight: at no time are two  *)
(* threads (two _batch_send_worker runs, or one and add_keys_to_queue)     *)
(* both between the assignment of True and the assignment of False.        *)
(***************************************************************************)
C20_SingleFlight ==
    Cardinality({ t \in Threads : Inside(t) }) <= 1

(***************************************************************************)
(* C21.  No key is silently dropped from the pending-sync queue: a key     *)
(* leaves wait_send_balancer only on the step where a sync call whose      *)
(* batch contained that key returns ok; a failed sync removes nothing.     *)
(***************************************************************************)
C21_NoKeyDropped ==
    [][\A k \in checkpoint.wait_send_balancer \ checkpoint'.wait_send_balancer :
         \E w \in Workers :
             /\ sync_utils.th[w].pc = "sending"
             /\ sync_utils'.th[w].pc = "save"
             /\ k \in sync_utils.th[w].keys]_vars

\* C22: with the rate-limit state shared by concurrent callers, k throttling
\* responses with no success in between raise the counter by exactly k, so it
\* is never below the number of throttles handled since the last success; and
\* a throttle handled right after another one leaves cooldown_until no earlier
\* than the end the earlier caller computed.
C22_SharedStateSafe ==
    [][\A c \in Callers :
         (st[c].pc = "incr" /\ st'[c].pc # "incr")
            => /\ count' >= streak'
               /\ (ev.type = "throttle" /\ IntHeader(ev.ra).ok)
                     => cooldown_until' >= cooldown_until]_vars

\* client c sends a search request or a contents request in this step
Requests(c) == st'[c].sent = st[c].sent + 1

\* C23: with a pool of n > 0 tokens the k-th request of a client, search
\* attempt or content fetch alike, carries pool[(k-1) mod n] and consumes one
\* _next_token call; no other step moves the pointer, and consecutive requests
\* carry different tokens when n > 1.
C23_RoundRobin ==
    [][\A c \in Callers :
         st[c].ntokens > 0
            => /\ Requests(c)
                    => /\ st'[c].current_token = (st[c].sent % st[c].ntokens) + 1
                       /\ st'[c].auth = st'[c].current_token
                       /\ st'[c].token_ptr = st[c].token_ptr + 1
                       /\ (st[c].ntokens > 1 /\ st[c].sent > 0)
                             => st'[c].current_token # st[c].current_token
               /\ ~Requests(c) => st'[c].token_ptr = st[c].token_ptr]_vars

\* a pool of two tokens has wrapped around over a content fetch, search
\* requests and a second content fetch
C23_Witness ==
    /\ st[1].ntokens = 2
    /\ st[1].pc = "fetch_await"
    /\ st[1].fetches = 2
    /\ st[1].reqs >= 2
    /\ st[1].current_token = 2

\* C24: with an empty pool _next_token returns None and leaves the pointer at
\* its value, and every request of search_for_keys and get_file_content goes
\* out without an Authorization header.
C24_EmptyPoolAnonymous ==
    \A c \in Callers :
        st[c].ntokens = 0
           => /\ st[c].token_ptr = 0
              /\ st[c].current_token = 0
              /\ st[c].pc \in {"await_response", "fetch_await", "fetch_download"}
                    => st[c].auth = 0

\* a client without tokens has sent search requests and a contents request
C24_Witness ==
    /\ st[1].ntokens = 0
    /\ st[1].pc = "fetch_await"
    /\ st[1].reqs >= 1
    /\ st[1].sent >= 2

\* a handler of client c runs in this step (time passing is not a handler)
Handler(c) == st'[c].pc # st[c].pc

\* C28: no handler moves cooldown_until backward, whether a throttled search
\* writes now + max(retry_after, 60 * count) or a 403 on a content fetch writes
\* now + 60, and the counter is never negative.
C28_CooldownMonotonic ==
    [][/\ (\E c \in Callers : Handler(c)) => cooldown_until' >= cooldown_until
       /\ count' >= 0]_vars

\* the four skip conditions of a hit, by the reason that names them
Holds(reason) ==
    CASE reason = "time_filter" ->
           /\ checkpoint.last_scan_time.kind = "ts"
           /\ item.pushed_at.kind = "ts"
           /\ item.pushed_at.t <= checkpoint.last_scan_time.t
      [] reason = "sha_duplicate" -> item.sha \in checkpoint.scanned_shas
      [] reason = "age_filter" ->
           /\ item.pushed_at.kind = "ts"
           /\ item.pushed_at.t < utcnow - DATE_RANGE_DAYS
      [] reason = "doc_filter" ->
           \E token \in FILE_PATH_BLACKLIST : Contains(token, Lower(item.path))
      [] OTHER -> FALSE

\* the (skip, reason) pair agrees with the conditions
Decided(r) ==
    /\ r.skip = (\E reason \in Reasons : Holds(reason))
    /\ r.skip => Holds(r.reason)
    /\ ~r.skip => r.reason = ""

\* C25: should_skip_item returns a (skip, reason) pair for every hit; skip is
\* True exactly when one of the four conditions holds, the reason names a
\* condition that holds, and otherwise the pair is (False, "").
C25_SkipDecision ==
    [][Evaluates => (~skip'.raised /\ Decided(skip'))]_vars

\* C27: load_checkpoint removes no identifier from the scanned-ids file,
\* whatever is on disk, a missing checkpoint.json next to a non-empty
\* scanned-ids file included: the scanned_shas it returns and the identifiers
\* in the file after it are the identifiers that were in the file before it.
C27_LoadKeepsIds ==
    [][LoadReturns
          => /\ checkpoint'.scanned_shas = run'.before
             /\ load_scanned_shas(disk'.scanned_shas_file) = run'.before]_vars

\* ceil(a / b)
Ceil(a, b) == (a + b - 1) \div b

\* C26: the deep scan cuts the DATE_RANGE_DAYS window into slices
\* DEEP_SCAN_INTERVAL_DAYS wide: the slices are not empty and at most one
\* interval wide, they come newest first and each begins where the one before
\* ends (no gap, no overlap), none reaches beyond the window, and when the
\* scan is done they cover exactly the window in ceil(days / interval) slices,
\* which is 53 for 365 days and 7-day slices.
C26_SlicesPartitionWindow ==
    deep_scan.pc \in {"slice", "done"}
       => /\ deep_scan.slice.lo < deep_scan.slice.hi
          /\ deep_scan.slice.hi - deep_scan.slice.lo <= deep_scan.interval
          /\ deep_scan.slice.hi <= deep_scan.days
          /\ deep_scan.twice = {}
          /\ deep_scan.covered = 0..(deep_scan.slice.hi - 1)
          /\ deep_scan.covered \ SliceDays(deep_scan.slice) = 0..(deep_scan.slice.lo - 1)
          /\ deep_scan.pc = "done"
                => /\ deep_scan.covered = 0..(deep_scan.days - 1)
                   /\ deep_scan.k = Ceil(deep_scan.days, deep_scan.interval)
                   /\ (deep_scan.days = 365 /\ deep_scan.interval = 7)
                         => deep_scan.k = 53

\* the default window has been scanned in the default slices
C26_Witness ==
    /\ deep_scan.pc = "done"
    /\ deep_scan.days = DATE_RANGE_DAYS
    /\ deep_scan.interval = DEEP_SCAN_INTERVAL_DAYS
    /\ deep_scan.k = 53
    /\ deep_scan.slice = [lo |-> 364, hi |-> 365]

====
